---- MODULE Spec2Model ----
(***************************************************************************)
(* PyPlug (src/pyplug/pyplug.py): a Socket routes attribute reads and      *)
(* writes to the Plugs connected to it.  The state is the fields of the    *)
(* Socket and Plug objects; there is one action per method.  connect and   *)
(* disconnect call a hook of the plug (connected / disconnected), which is *)
(* code of the plug's subclass: the model stops at the hook (variable      *)
(* hook), lets the hook use the socket and the plug, and then returns.     *)
(***************************************************************************)
EXTENDS Integers, Sequences, FiniteSets, TLC

VARIABLES
    connections,  \* Socket._connections: per socket, priority -> list of plugs
    compiled,     \* Socket._compiled_connections: per socket, list of plugs
    socket,       \* Plug.socket: per plug, a socket or None
    supplies,     \* Plug._supplies: per plug, alias -> attribute name
    attrs,        \* the other instance attributes of each plug: name -> value
    hook,         \* the connected()/disconnected() hook being run, or NoHook
    last          \* the last call and how it ended

vars == <<connections, compiled, socket, supplies, attrs, hook, last>>

----------------------------------------------------------------------------
(* Bounds and input sets *)

MaxConn == 2                  \* most list entries one socket's _connections holds

Sockets == {"s1"}
Plugs == {"A", "B"}
Priorities == {0, 1}          \* 0 is connect's default priority
Names == {"x", "y"}           \* the names read and written on a socket, and the aliases
Attributes == {"x"}           \* the attributes a plug assigns and supplies
Values == {"v1", "v2"}        \* attribute values

None == "None"                \* Python's None
NoHook == [op |-> "none", socket |-> None, plug |-> None]

----------------------------------------------------------------------------
(* Helpers on lists and dicts *)

Range(s) == {s[i] : i \in 1..Len(s)}

\* list.remove(x): drops the first element equal to x (x is known to be in s)
ListRemove(s, x) ==
    LET i == CHOOSE j \in 1..Len(s) : s[j] = x /\ \A k \in 1..(j - 1) : s[k] # x
    IN  [j \in 1..(Len(s) - 1) |-> IF j < i THEN s[j] ELSE s[j + 1]]

\* a faulty variant of the loop: one remove() call
RemoveOnce(s, x) == IF x \in Range(s) THEN ListRemove(s, x) ELSE s

\* while True: try: l.remove(plug) except ValueError: break
RECURSIVE RemoveUntilValueError(_, _)
RemoveUntilValueError(s, x) ==
    IF x \in Range(s) THEN RemoveUntilValueError(ListRemove(s, x), x) ELSE s

\* a faulty variant of sorted(): descending order
RECURSIVE SortedDescending(_)
SortedDescending(S) ==
    IF S = {} THEN <<>>
    ELSE LET m == CHOOSE k \in S : \A j \in S : k >= j
         IN  <<m>> \o SortedDescending(S \ {m})

\* sorted(): the keys in ascending order
RECURSIVE Sorted(_)
Sorted(S) ==
    IF S = {} THEN <<>>
    ELSE LET m == CHOOSE k \in S : \A j \in S : k <= j
         IN  <<m>> \o Sorted(S \ {m})

\* all list entries of a _connections dict
RECURSIVE Entries(_, _)
Entries(d, keys) ==
    IF keys = {} THEN 0
    ELSE LET k == CHOOSE k \in keys : TRUE
         IN  Len(d[k]) + Entries(d, keys \ {k})

----------------------------------------------------------------------------
(* Socket._compile_connections *)

\* a faulty variant of _compile_connections: the list is emptied and not filled again
CompileConnectionsEmpty(d) == <<>>

\* for ... in sorted items: extend
RECURSIVE ExtendAll(_, _, _)
ExtendAll(d, keys, i) ==
    IF i > Len(keys) THEN <<>> ELSE d[keys[i]] \o ExtendAll(d, keys, i + 1)

\* the new value of _compiled_connections for the _connections dict d
CompileConnections(d) == ExtendAll(d, Sorted(DOMAIN d), 1)

----------------------------------------------------------------------------
(* Socket._find_supplies, Socket.__getattr__, Socket.__setattr__ *)

\* the (connection, attribute) pairs the generator yields for name, in order
RECURSIVE FindSupplies(_, _, _, _)
FindSupplies(conns, sup, name, i) ==
    IF i > Len(conns) THEN <<>>
    ELSE (IF name \in DOMAIN sup[conns[i]]
          THEN << <<conns[i], sup[conns[i]][name]>> >>
          ELSE <<>>) \o FindSupplies(conns, sup, name, i + 1)

\* a faulty variant of the raise: the generator ends without raising
RaisesNever(found) == FALSE

\* `if not supplied: raise ValueError`, once the generator is exhausted
Raises(found) == Len(found) = 0

\* the loop of __getattr__: getattr() of every pair, the last one is kept;
\* getattr() of an attribute the plug does not have raises AttributeError
RECURSIVE GetattrLoop(_, _, _, _)
GetattrLoop(found, at, i, result) ==
    IF i > Len(found) THEN [kind |-> "return", val |-> result]
    ELSE IF found[i][2] \notin DOMAIN at[found[i][1]]
         THEN [kind |-> "AttributeError", val |-> None]
         ELSE GetattrLoop(found, at, i + 1, at[found[i][1]][found[i][2]])

\* socket.name, for a name that is no attribute of the Socket object itself
Getattr(conns, sup, at, name) ==
    LET found == FindSupplies(conns, sup, name, 1)
        res == GetattrLoop(found, at, 1, None)
    IN  IF res.kind = "return" /\ Raises(found)
        THEN [kind |-> "ValueError", val |-> None]
        ELSE res

\* setattr(plug, name, value) on an ordinary object: the attribute is set or created
SetOn(at, plug, name, value) ==
    [at EXCEPT ![plug] = [k \in DOMAIN @ \cup {name} |-> IF k = name THEN value ELSE @[k]]]

\* a faulty variant of the loop of __setattr__: only the last pair is written
SetattrLast(found, at, i, value) ==
    IF Len(found) = 0 THEN at
    ELSE SetOn(at, found[Len(found)][1], found[Len(found)][2], value)

\* the loop of __setattr__: setattr() on every pair
RECURSIVE SetattrLoop(_, _, _, _)
SetattrLoop(found, at, i, value) ==
    IF i > Len(found) THEN at
    ELSE SetattrLoop(found, SetOn(at, found[i][1], found[i][2], value), i + 1, value)

----------------------------------------------------------------------------
(* Plug.supply *)

\* a faulty variant of supply: the alias is mapped to itself
SupplyAlias(sup, name, alias) ==
    LET a == IF alias = None THEN name ELSE alias
    IN  [k \in DOMAIN sup \cup {a} |-> IF k = a THEN a ELSE sup[k]]

\* a faulty variant of supply: the dict is made anew and holds this alias only
SupplyFresh(sup, name, alias) ==
    LET a == IF alias = None THEN name ELSE alias
    IN  [k \in {a} |-> name]

\* the new _supplies dict: `if not alias: alias = name; _supplies[alias] = name`
Supply(sup, name, alias) ==
    LET a == IF alias = None THEN name ELSE alias
    IN  [k \in DOMAIN sup \cup {a} |-> IF k = a THEN name ELSE sup[k]]

----------------------------------------------------------------------------
(* Socket.connect and Socket.disconnect, up to and after the hook *)

\* a faulty variant of the binding: the plug is not bound before the hook
BindLate(sock, s, plug) == sock

\* plug.socket = self
Bind(sock, s, plug) == [sock EXCEPT ![plug] = s]

\* a faulty variant of the append: the plug is put in front of its bucket
ConnectPrepend(d, priority, plug) ==
    [k \in DOMAIN d \cup {priority} |->
        IF k = priority
        THEN (IF k \in DOMAIN d THEN <<plug>> \o d[k] ELSE <<plug>>)
        ELSE d[k]]

\* a faulty variant of the append: a plug already in the bucket is not added again
ConnectAppendOnce(d, priority, plug) ==
    [k \in DOMAIN d \cup {priority} |->
        IF k = priority
        THEN (IF k \in DOMAIN d
              THEN (IF plug \in Range(d[k]) THEN d[k] ELSE Append(d[k], plug))
              ELSE <<plug>>)
        ELSE d[k]]

\* self._connections[priority].append(plug); _connections is a
\* defaultdict(list), which makes the list when the key is new
ConnectAppend(d, priority, plug) ==
    [k \in DOMAIN d \cup {priority} |->
        IF k = priority
        THEN (IF k \in DOMAIN d THEN Append(d[k], plug) ELSE <<plug>>)
        ELSE d[k]]

\* a faulty variant of the removal: a bucket that does not hold plug loses
\* its last entry
DisconnectRemoveTail(d, plug) ==
    [k \in DOMAIN d |->
        IF plug \in Range(d[k]) THEN RemoveUntilValueError(d[k], plug)
        ELSE SubSeq(d[k], 1, Len(d[k]) - 1)]

\* a faulty variant of the removal: a bucket that holds plug is emptied
DisconnectRemoveBucket(d, plug) ==
    [k \in DOMAIN d |-> IF plug \in Range(d[k]) THEN <<>> ELSE d[k]]

\* the buckets that hold plug lose every entry of it (the generator of
\* disconnect reads each bucket when it reaches it, and a bucket is changed
\* only after it was read)
DisconnectRemove(d, plug) ==
    [k \in DOMAIN d |->
        IF plug \in Range(d[k]) THEN RemoveUntilValueError(d[k], plug) ELSE d[k]]

\* a faulty variant of disconnect: the removal is done before the hook is called
BeforeDisconnectedRemoved(d, plug) == DisconnectRemove(d, plug)

\* _connections when disconnected() is called: disconnect has done nothing yet
BeforeDisconnected(d, plug) == d

----------------------------------------------------------------------------
(* The state machine *)

\* how a call ended, or where it is
Result(kind) == [kind |-> kind, val |-> None]

\* a call of op; socket and name are those of a read or a write, None otherwise;
\* removed is the number of list entries a disconnect has taken out, 0 otherwise
Call(op, s, name, res) ==
    [op |-> op, socket |-> s, name |-> name, res |-> res, removed |-> 0]

\* Socket() and Plug() as constructed
Init ==
    /\ connections = [s \in Sockets |-> <<>>]
    /\ compiled = [s \in Sockets |-> <<>>]
    /\ socket = [p \in Plugs |-> None]
    /\ supplies = [p \in Plugs |-> <<>>]
    /\ attrs = [p \in Plugs |-> <<>>]
    /\ hook = NoHook
    /\ last = Call("init", None, None, Result("return"))

\* a faulty variant of connect: a plug bound to another socket is first taken
\* out of that socket
ConnectMoving(s, plug, priority) ==
    LET old == socket[plug]
        moved == IF old \in DOMAIN connections \ {s}
                 THEN [connections EXCEPT ![old] = DisconnectRemove(@, plug)]
                 ELSE connections
    IN  /\ hook = NoHook
        /\ Entries(connections[s], DOMAIN connections[s]) < MaxConn
        /\ socket' = Bind(socket, s, plug)
        /\ connections' = [moved EXCEPT ![s] = ConnectAppend(@, priority, plug)]
        /\ compiled' = [t \in DOMAIN compiled |-> CompileConnections(connections'[t])]
        /\ hook' = [op |-> "connected", socket |-> s, plug |-> plug]
        /\ last' = Call("connect", None, None, Result("hook"))
        /\ UNCHANGED <<supplies, attrs>>

\* s.connect(plug, priority) up to the call of plug.connected()
Connect(s, plug, priority) ==
    /\ hook = NoHook
    /\ Entries(connections[s], DOMAIN connections[s]) < MaxConn
    /\ socket' = Bind(socket, s, plug)
    /\ connections' = [connections EXCEPT ![s] = ConnectAppend(@, priority, plug)]
    /\ compiled' = [compiled EXCEPT ![s] = CompileConnections(connections'[s])]
    /\ hook' = [op |-> "connected", socket |-> s, plug |-> plug]
    /\ last' = Call("connect", None, None, Result("hook"))
    /\ UNCHANGED <<supplies, attrs>>

\* plug.connected() returns, and connect with it
ConnectReturn ==
    /\ hook.op = "connected"
    /\ hook' = NoHook
    /\ last' = Call("connect", None, None, Result("return"))
    /\ UNCHANGED <<connections, compiled, socket, supplies, attrs>>

\* s.disconnect(plug) up to the call of plug.disconnected()
Disconnect(s, plug) ==
    /\ hook = NoHook
    /\ connections' = [connections EXCEPT ![s] = BeforeDisconnected(@, plug)]
    /\ hook' = [op |-> "disconnected", socket |-> s, plug |-> plug]
    /\ last' = Call("disconnect", None, None, Result("hook"))
    /\ UNCHANGED <<compiled, socket, supplies, attrs>>

\* plug.disconnected() returns; disconnect removes the plug and recompiles
DisconnectReturn ==
    /\ hook.op = "disconnected"
    /\ connections' = [connections EXCEPT ![hook.socket] = DisconnectRemove(@, hook.plug)]
    /\ compiled' = [compiled EXCEPT ![hook.socket] = CompileConnections(connections'[hook.socket])]
    /\ hook' = NoHook
    /\ last' = [Call("disconnect", None, None, Result("return")) EXCEPT
                    !.removed = Entries(connections[hook.socket], DOMAIN connections[hook.socket])
                                - Entries(connections'[hook.socket], DOMAIN connections'[hook.socket])]
    /\ UNCHANGED <<socket, supplies, attrs>>

\* a read of s.name, by a caller or from inside a hook
GetAttribute(s, name) ==
    /\ last' = Call("getattr", s, name,
                    Getattr(compiled[s], supplies, attrs, name))
    /\ UNCHANGED <<connections, compiled, socket, supplies, attrs, hook>>

\* a faulty variant of the write: a name that is a field of the Socket is
\* assigned on the Socket itself and its compiled list is lost
SetAttributeOwn(s, name, value) ==
    LET found == FindSupplies(compiled[s], supplies, name, 1)
        own == name \in {"_connections", "_compiled_connections"}
    IN  /\ attrs' = IF own THEN attrs ELSE SetattrLoop(found, attrs, 1, value)
        /\ compiled' = IF own THEN [compiled EXCEPT ![s] = <<>>] ELSE compiled
        /\ last' = Call("setattr", s, name,
                        Result(IF ~own /\ Raises(found) THEN "ValueError" ELSE "return"))
        /\ UNCHANGED <<connections, socket, supplies, hook>>

\* s.name = value, by a caller or from inside a hook
SetAttribute(s, name, value) ==
    LET found == FindSupplies(compiled[s], supplies, name, 1)
    IN  /\ attrs' = SetattrLoop(found, attrs, 1, value)
        /\ last' = Call("setattr", s, name,
                        Result(IF Raises(found) THEN "ValueError" ELSE "return"))
        /\ UNCHANGED <<connections, compiled, socket, supplies, hook>>

\* a faulty variant of supply: a plug that is bound to a socket keeps the
\* _supplies it had when it was bound
SupplyCallUnbound(plug, name, alias) ==
    /\ supplies' = [supplies EXCEPT ![plug] =
                        IF socket[plug] = None THEN Supply(@, name, alias) ELSE @]
    /\ last' = Call("supply", None, None, Result("return"))
    /\ UNCHANGED <<connections, compiled, socket, attrs, hook>>

\* plug.supply(name, alias); alias None is the default
SupplyCall(plug, name, alias) ==
    /\ supplies' = [supplies EXCEPT ![plug] = Supply(@, name, alias)]
    /\ last' = Call("supply", None, None, Result("return"))
    /\ UNCHANGED <<connections, compiled, socket, attrs, hook>>

\* the plug's own code assigns one of its attributes: self.name = value
PlugAssign(plug, name, value) ==
    /\ attrs' = SetOn(attrs, plug, name, value)
    /\ last' = Call("assign", None, None, Result("return"))
    /\ UNCHANGED <<connections, compiled, socket, supplies, hook>>

Next ==
    \/ \E s \in Sockets, plug \in Plugs, priority \in Priorities : Connect(s, plug, priority)
    \/ ConnectReturn
    \/ \E s \in Sockets, plug \in Plugs : Disconnect(s, plug)
    \/ DisconnectReturn
    \/ \E s \in Sockets, name \in Names : GetAttribute(s, name)
    \/ \E s \in Sockets, name \in Names, value \in Values : SetAttribute(s, name, value)
    \/ \E plug \in Plugs, name \in Attributes, alias \in Names \cup {None} : SupplyCall(plug, name, alias)
    \/ \E plug \in Plugs, name \in Attributes, value \in Values : PlugAssign(plug, name, value)

Spec == Init /\ [][Next]_vars

----------------------------------------------------------------------------
(* What the claims speak of, stated on the registry (never on the compiled  *)
(* list, which is what the code reads)                                      *)

\* the plugs in some bucket of socket s
Attached(s) == UNION {Range(connections[s][k]) : k \in DOMAIN connections[s]}

\* the registry flattened: ascending priority, each bucket in its own order
RECURSIVE Flattened(_, _)
Flattened(d, keys) ==
    IF keys = {} THEN <<>>
    ELSE LET top == CHOOSE k \in keys : \A j \in keys : j <= k
         IN  Flattened(d, keys \ {top}) \o d[top]

\* the attached plugs whose _supplies has name
Suppliers(s, name) == {p \in Attached(s) : name \in DOMAIN supplies[p]}

\* every supplier of name has the attribute it supplies name from
AllSet(s, name) ==
    \A p \in Suppliers(s, name) : supplies[p][name] \in DOMAIN attrs[p]

\* the highest priority at which a supplier of name is attached
TopPriority(s, name) ==
    CHOOSE k \in DOMAIN connections[s] :
        /\ Range(connections[s][k]) \cap Suppliers(s, name) # {}
        /\ \A j \in DOMAIN connections[s] :
              Range(connections[s][j]) \cap Suppliers(s, name) # {} => j <= k

\* the supplier of name that stands last in the bucket of the highest priority
Winner(s, name) ==
    LET b == connections[s][TopPriority(s, name)]
        i == CHOOSE j \in 1..Len(b) :
                 /\ b[j] \in Suppliers(s, name)
                 /\ \A k \in (j + 1)..Len(b) : b[k] \notin Suppliers(s, name)
    IN  b[i]

\* the value of the attribute plug p supplies name from
Supplied(p, name) == attrs[p][supplies[p][name]]

\* the last call was the read s.name
ReadOf(s, name) == last.op = "getattr" /\ last.socket = s /\ last.name = name

\* the last call was the write s.name = ...
WriteOf(s, name) == last.op = "setattr" /\ last.socket = s /\ last.name = name

\* the supplier of name that stands last in the compiled list of s
LastMatching(s, name) ==
    LET c == compiled[s]
        i == CHOOSE j \in 1..Len(c) :
                 /\ name \in DOMAIN supplies[c[j]]
                 /\ \A k \in (j + 1)..Len(c) : name \notin DOMAIN supplies[c[k]]
    IN  c[i]

Returned(value) == [kind |-> "return", val |-> value]

----------------------------------------------------------------------------
(* The claims *)

\* C1: in every state a hook or an attribute access can observe, the compiled
\* list of each socket is its registry flattened by ascending priority, each
\* bucket in insertion order: it is never stale.
C1_ResolutionOrderFresh ==
    \A s \in Sockets : compiled[s] = Flattened(connections[s], DOMAIN connections[s])

\* a disconnect has returned: it emptied one bucket and left a plug in the other
C1_Witness ==
    /\ last.op = "disconnect" /\ last.res.kind = "return"
    /\ \E s \in Sockets, k \in Priorities, j \in Priorities :
          /\ DOMAIN connections[s] = {k, j}
          /\ connections[s][k] = <<>>
          /\ Len(connections[s][j]) >= 1
          /\ compiled[s] = connections[s][j]

Without(bucket, plug) == SelectSeq(bucket, LAMBDA q : q # plug)

\* C3, amended: a bucket holds its plugs in the order of their connects (a
\* connect puts the plug last in its bucket, a disconnect keeps the order of
\* the others), and when every attached supplier of the name has the attribute
\* it supplies it from, a read returns the value of the supplier that stands
\* last in the bucket of the highest priority at which the name is supplied:
\* the most recently attached one.
C3_Step ==
    /\ \A s \in Sockets, name \in Names :
          (ReadOf(s, name)' /\ Suppliers(s, name) # {} /\ AllSet(s, name))
          => last'.res = Returned(Supplied(Winner(s, name), name))
    /\ \A s \in Sockets, plug \in Plugs, priority \in Priorities :
          (last'.op = "connect" /\ Connect(s, plug, priority))
          => /\ DOMAIN connections'[s] = DOMAIN connections[s] \cup {priority}
             /\ connections'[s][priority] =
                   Append(IF priority \in DOMAIN connections[s]
                          THEN connections[s][priority] ELSE <<>>, plug)
             /\ \A k \in DOMAIN connections[s] \ {priority} :
                   connections'[s][k] = connections[s][k]
    /\ (last'.op = "disconnect" /\ DisconnectReturn)
          => \A k \in DOMAIN connections[hook.socket] :
                connections'[hook.socket][k] = Without(connections[hook.socket][k], hook.plug)

With(d, key, value) ==
    [k \in DOMAIN d \cup {key} |-> IF k = key THEN value ELSE d[k]]

\* C4: a write s.name = value sets the attribute supplies[p][name] to value on
\* every attached plug p that supplies name, at any priority and position,
\* and changes no other attribute of any plug.
C4_Step ==
    \A s \in Sockets, name \in Names, value \in Values :
        (last'.op = "setattr" /\ SetAttribute(s, name, value))
        => \A p \in Plugs :
              attrs'[p] = IF p \in Suppliers(s, name)
                          THEN With(attrs[p], supplies[p][name], value)
                          ELSE attrs[p]

\* C4: every step keeps C4_Step
C4_WriteFanOut == [][C4_Step]_vars

\* a write has returned; two plugs at different priorities supply its name and
\* hold the same value
C4_Witness ==
    \E s \in Sockets, name \in Names, a \in Plugs, b \in Plugs :
        /\ WriteOf(s, name) /\ last.res.kind = "return"
        /\ a # b
        /\ DOMAIN connections[s] = {0, 1}
        /\ a \in Range(connections[s][0])
        /\ b \in Range(connections[s][1])
        /\ {a, b} \subseteq Suppliers(s, name)
        /\ AllSet(s, name)
        /\ Supplied(a, name) = Supplied(b, name)

\* C5: a read of a name that no attached plug supplies (none is attached, or
\* none has the name in its _supplies) raises ValueError and leaves the
\* registry, the compiled list and every plug as they were.
C5_Step ==
    \A s \in Sockets, name \in Names :
        (ReadOf(s, name)' /\ Suppliers(s, name) = {})
        => /\ last'.res.kind = "ValueError"
           /\ UNCHANGED <<connections, compiled, socket, supplies, attrs>>

\* C5: every step keeps C5_Step
C5_UnsuppliedReadFails == [][C5_Step]_vars

\* a read has raised ValueError on a socket with a plug that supplies only
\* the other name
C5_Witness ==
    \E s \in Sockets, p \in Plugs :
        /\ last.op = "getattr" /\ last.socket = s
        /\ last.res.kind = "ValueError"
        /\ p \in Attached(s)
        /\ supplies[p] # <<>>

C6_Step ==
    \A s \in Sockets, name \in Names :
        (WriteOf(s, name)' /\ Suppliers(s, name) = {})
        => /\ last'.res.kind = "ValueError"
           /\ UNCHANGED <<connections, compiled, socket, supplies, attrs, hook>>

C7_Step ==
    (last'.op = "disconnect" /\ last'.res.kind = "return")
    => LET s == hook.socket
           m == hook.plug
       IN  /\ \A k \in DOMAIN connections'[s] : m \notin Range(connections'[s][k])
           /\ m \notin Range(compiled'[s])
           /\ \A name \in Names :
                 (/\ m \in Suppliers(s, name)
                  /\ Suppliers(s, name) = {m})
                 => Getattr(compiled'[s], supplies', attrs', name).kind = "ValueError"

\* C7: every step keeps C7_Step
C7_DetachRemovesAll == [][C7_Step]_vars

\* a disconnect has returned that took two entries out of the registry, and a
\* name its plug supplies has no attached supplier left
C7_Witness ==
    \E s \in Sockets, m \in Plugs, name \in Names :
        /\ last.op = "disconnect" /\ last.res.kind = "return"
        /\ last.removed = 2
        /\ m \notin Attached(s)
        /\ name \in DOMAIN supplies[m]
        /\ Suppliers(s, name) = {}
        /\ socket[m] = s

\* C8: connect(m, p) calls m.connected() once, after m.socket is the socket, m
\* stands last in bucket p and the compiled list is recompiled; all through
\* the hook every attached plug, m included, is found for each name it
\* supplies; the registry changes no more until the hook returns, and connect
\* returns without calling the hook again.
C8_Step ==
    /\ \A s \in Sockets, m \in Plugs, p \in Priorities :
          (last'.op = "connect" /\ Connect(s, m, p))
          => /\ hook.op = "none"
             /\ hook' = [op |-> "connected", socket |-> s, plug |-> m]
             /\ connections'[s][p][Len(connections'[s][p])] = m
    /\ \A s \in Sockets, m \in Plugs :
          hook' = [op |-> "connected", socket |-> s, plug |-> m]
          => /\ socket'[m] = s
             /\ m \in Attached(s)'
             /\ compiled'[s] = Flattened(connections'[s], DOMAIN connections'[s])
             /\ \A q \in Attached(s)' :
                   \A name \in DOMAIN supplies'[q] :
                      <<q, supplies'[q][name]>> \in
                         Range(FindSupplies(compiled'[s], supplies', name, 1))
    /\ (hook.op = "connected" /\ hook' # hook)
          => /\ hook' = NoHook
             /\ last'.op = "connect" /\ last'.res.kind = "return"
             /\ UNCHANGED <<connections, compiled, socket, supplies, attrs>>

\* C8: every step keeps C8_Step
C8_AttachHookOrdering == [][C8_Step]_vars

\* inside connected() of m, with a sibling attached, a read through the
\* socket has returned the value m itself supplies
C8_Witness ==
    \E s \in Sockets, name \in Names :
        /\ hook = [op |-> "connected", socket |-> s, plug |-> hook.plug]
        /\ ReadOf(s, name)
        /\ Attached(s) = Plugs
        /\ hook.plug \in Suppliers(s, name)
        /\ AllSet(s, name)
        /\ LastMatching(s, name) = hook.plug
        /\ last.res = Returned(Supplied(hook.plug, name))

\* C9: disconnect(m) calls m.disconnected() before it removes anything: the
\* call leaves the registry, the compiled list and m.socket as they were, they
\* stay so all through the hook (an attached m is still bound to the socket and
\* still in the compiled list, which still is the flattened registry), and the
\* registry changes only when the hook returns.
C9_Step ==
    /\ \A s \in Sockets, m \in Plugs :
          (last'.op = "disconnect" /\ hook'.op = "disconnected" /\ Disconnect(s, m))
          => /\ hook' = [op |-> "disconnected", socket |-> s, plug |-> m]
             /\ UNCHANGED <<connections, compiled, socket, supplies, attrs>>
    /\ \A s \in Sockets, m \in Plugs :
          hook' = [op |-> "disconnected", socket |-> s, plug |-> m]
          => /\ m \in Attached(s)' => (socket'[m] = s /\ m \in Range(compiled'[s]))
             /\ compiled'[s] = Flattened(connections'[s], DOMAIN connections'[s])
             /\ hook.op = "disconnected" => UNCHANGED <<hook, connections, compiled, socket>>
    /\ (hook.op = "disconnected" /\ <<connections, compiled>>' # <<connections, compiled>>)
          => (hook' = NoHook /\ last'.op = "disconnect" /\ last'.res.kind = "return")

\* C9: every step keeps C9_Step
C9_DetachHookOrdering == [][C9_Step]_vars

\* inside disconnected() of m, with a sibling attached, a read through the
\* socket has returned the value m itself supplies
C9_Witness ==
    \E s \in Sockets, name \in Names :
        /\ hook = [op |-> "disconnected", socket |-> s, plug |-> hook.plug]
        /\ ReadOf(s, name)
        /\ Attached(s) = Plugs
        /\ hook.plug \in Suppliers(s, name)
        /\ AllSet(s, name)
        /\ LastMatching(s, name) = hook.plug
        /\ last.res = Returned(Supplied(hook.plug, name))

\* C10: when supply(name, alias) with an alias other than name has returned
\* on an attached plug, a read or a write of alias on the socket reaches the
\* plug's attribute name, and a read of name itself raises ValueError unless
\* some attached plug has name as an alias in its _supplies.
C10_Step ==
    \A p \in Plugs, name \in Attributes, alias \in Names :
        (last'.op = "supply" /\ alias # name /\ SupplyCall(p, name, alias))
        => /\ supplies'[p][alias] = name
           /\ \A s \in Sockets :
                 p \in Attached(s)
                 => /\ <<p, name>> \in Range(FindSupplies(compiled'[s], supplies', alias, 1))
                    /\ \A v \in Values :
                          LET found == FindSupplies(compiled'[s], supplies', alias, 1)
                          IN  SetattrLoop(found, attrs', 1, v)[p][name] = v
                    /\ (AllSet(s, alias)' /\ LastMatching(s, alias)' = p)
                          => Getattr(compiled'[s], supplies', attrs', alias)
                                = Returned(attrs'[p][name])
                    /\ Getattr(compiled'[s], supplies', attrs', name).kind = "ValueError"
                          <=> (\A q \in Attached(s) : name \notin DOMAIN supplies'[q])

\* C10: every step keeps C10_Step
C10_AliasRemap == [][C10_Step]_vars

\* the only supply calls so far were supply("x", "y") on one attached plug,
\* and a read of y has returned the plug's attribute x
C10_Witness ==
    \E s \in Sockets, p \in Plugs :
        /\ ReadOf(s, "y")
        /\ p \in Attached(s)
        /\ supplies[p] = ("y" :> "x")
        /\ \A q \in Plugs \ {p} : supplies[q] = <<>>
        /\ "x" \in DOMAIN attrs[p]
        /\ last.res = Returned(attrs[p]["x"])

\* C11: s.disconnect(plug) for a plug that is in no bucket of s raises nothing:
\* it calls plug.disconnected() (the hook is entered by the call and left by
\* its return), takes no entry out, and leaves every bucket and the compiled
\* list of s as they were.
C11_Step ==
    /\ \A s \in Sockets, plug \in Plugs :
          (last'.op = "disconnect" /\ Disconnect(s, plug) /\ plug \notin Attached(s))
          => /\ hook = NoHook
             /\ hook' = [op |-> "disconnected", socket |-> s, plug |-> plug]
             /\ last'.res.kind = "hook"
             /\ connections'[s] = connections[s]
             /\ compiled'[s] = compiled[s]
    /\ \A s \in Sockets, plug \in Plugs :
          (/\ last'.op = "disconnect"
           /\ hook = [op |-> "disconnected", socket |-> s, plug |-> plug]
           /\ DisconnectReturn
           /\ plug \notin Attached(s))
          => /\ hook' = NoHook
             /\ last'.res.kind = "return"
             /\ last'.removed = 0
             /\ connections'[s] = connections[s]
             /\ compiled'[s] = compiled[s]

\* C11: every step keeps C11_Step
C11_DetachNonMember == [][C11_Step]_vars

\* a disconnect of a plug that was not attached has returned, while another
\* plug is attached and compiled
C11_Witness ==
    \E s \in Sockets, m \in Plugs :
        /\ last.op = "disconnect"
        /\ last.res.kind = "return"
        /\ last.removed = 0
        /\ hook = NoHook
        /\ Attached(s) = Plugs \ {m}
        /\ Len(compiled[s]) = MaxConn

\* the number of entries of a list that are plug
Occurrences(list, plug) == Cardinality({i \in 1..Len(list) : list[i] = plug})

\* C12: every s.connect(plug, priority) goes through without an error and puts
\* exactly one new entry of plug at the end of bucket priority, also when the
\* plug is already there; the entries of plug in the compiled list go up by
\* one with every connect of it, to zero with a disconnect of it, and change
\* with nothing else, so they number the connects since the last disconnect.
C12_Step ==
    /\ \A s \in Sockets, plug \in Plugs, priority \in Priorities :
          (last'.op = "connect" /\ Connect(s, plug, priority))
          => /\ last'.res.kind = "hook"
             /\ connections'[s][priority] =
                   Append(IF priority \in DOMAIN connections[s]
                          THEN connections[s][priority] ELSE <<>>, plug)
             /\ Occurrences(compiled'[s], plug) = Occurrences(compiled[s], plug) + 1
             /\ \A q \in Plugs \ {plug} :
                   Occurrences(compiled'[s], q) = Occurrences(compiled[s], q)
    /\ (last'.op = "connect" /\ ConnectReturn) => last'.res.kind = "return"
    /\ \A s \in Sockets, plug \in Plugs :
          (/\ last'.op = "disconnect"
           /\ hook = [op |-> "disconnected", socket |-> s, plug |-> plug]
           /\ DisconnectReturn)
          => /\ Occurrences(compiled'[s], plug) = 0
             /\ \A q \in Plugs \ {plug} :
                   Occurrences(compiled'[s], q) = Occurrences(compiled[s], q)
    /\ \A s \in Sockets, plug \in Plugs :
          Occurrences(compiled'[s], plug) # Occurrences(compiled[s], plug)
          => \/ last'.op = "connect" /\ hook'.op = "connected" /\ hook'.plug = plug
             \/ last'.op = "disconnect" /\ hook.op = "disconnected" /\ hook.plug = plug

\* C12: every step keeps C12_Step
C12_DuplicateAttach == [][C12_Step]_vars

\* a plug was connected twice at one priority and stands twice in the bucket
\* and twice in the compiled list
C12_Witness ==
    \E s \in Sockets, m \in Plugs, k \in Priorities :
        /\ last.op = "connect"
        /\ k \in DOMAIN connections[s]
        /\ connections[s][k] = <<m, m>>
        /\ Occurrences(compiled[s], m) = 2

\* C14: whenever no connect or disconnect is under way, plug.socket of every
\* plug is None or a socket that holds the plug in one of its buckets.
C14_BoundHubTracksAttachment ==
    hook = NoHook =>
        \A p \in Plugs : socket[p] = None \/ p \in Attached(socket[p])

----------------------------------------------------------------------------
(* Reads and writes of the names of the Socket's own fields *)

\* the instance attributes of a Socket: __init__ sets these two, and nothing
\* can add another, since every later assignment goes through __setattr__
OwnFields == {"_connections", "_compiled_connections"}

\* the names read and written on a socket, the own fields among them
PrivateNames == {"x"} \cup OwnFields

\* the priority and the value of the runs with the own fields
PrivatePriorities == {0}
PrivateValues == {"v1"}

\* a faulty variant of the lookup: every read is handed to __getattr__
FoundByLookupNever(name) == FALSE

\* the class defines __getattr__, which Python calls only for a name the
\* normal lookup does not find on the object
FoundByLookup(name) == name \in OwnFields

\* the value of an own field of socket s
OwnValue(s, name) ==
    IF name = "_connections" THEN connections[s] ELSE compiled[s]

\* a read of s.name for any name, by a caller or from inside a hook
ReadAttribute(s, name) ==
    /\ last' = Call("getattr", s, name,
                    IF FoundByLookup(name)
                    THEN [kind |-> "own", val |-> OwnValue(s, name)]
                    ELSE Getattr(compiled[s], supplies, attrs, name))
    /\ UNCHANGED <<connections, compiled, socket, supplies, attrs, hook>>

NextPrivate ==
    \/ \E s \in Sockets, plug \in Plugs, priority \in PrivatePriorities : Connect(s, plug, priority)
    \/ ConnectReturn
    \/ \E s \in Sockets, plug \in Plugs : Disconnect(s, plug)
    \/ DisconnectReturn
    \/ \E s \in Sockets, name \in PrivateNames : ReadAttribute(s, name)
    \/ \E s \in Sockets, name \in PrivateNames, value \in PrivateValues : SetAttribute(s, name, value)
    \/ \E plug \in Plugs, name \in Attributes, alias \in PrivateNames \cup {None} : SupplyCall(plug, name, alias)
    \/ \E plug \in Plugs, name \in Attributes, value \in PrivateValues : PlugAssign(plug, name, value)

SpecPrivate == Init /\ [][NextPrivate]_vars

\* C13: a read of s._connections or s._compiled_connections gives the socket's
\* own bucket dict or compiled list and is never handed to a plug, also when an
\* attached plug supplies an alias of exactly that name.
C13_OwnFieldsNotRouted ==
    \A s \in Sockets, name \in OwnFields :
        ReadOf(s, name)
        => /\ last.res.kind = "own"
           /\ last.res.val = OwnValue(s, name)

\* the compiled list was read while an attached plug supplies the alias
\* _compiled_connections from an attribute it has, and the read gave the list
C13_Witness ==
    \E s \in Sockets, p \in Plugs :
        /\ ReadOf(s, "_compiled_connections")
        /\ p \in Attached(s)
        /\ "_compiled_connections" \in DOMAIN supplies[p]
        /\ supplies[p]["_compiled_connections"] \in DOMAIN attrs[p]
        /\ last.res.kind = "own"
        /\ last.res.val = compiled[s]
        /\ p \in Range(last.res.val)

----------------------------------------------------------------------------
(* Plug.supply on its own, with two attributes and three aliases *)

\* the attributes supplied
SupplyTargets == {"x", "hp"}

\* the aliases they are supplied under
SupplyAliases == {"x", "hp", "health"}

NextSupply ==
    \E plug \in Plugs, name \in SupplyTargets, alias \in SupplyAliases \cup {None} :
        SupplyCall(plug, name, alias)

SpecSupply == Init /\ [][NextSupply]_vars

\* C15: plug.supply(name, alias) raises nothing and maps alias to name in
\* _supplies, with name as the alias when none is given; the entries under
\* the other aliases and the dicts of the other plugs stay as they were, so
\* distinct aliases add up and an alias supplied again takes the new name.
C15_Step ==
    \A plug \in Plugs, name \in SupplyTargets, alias \in SupplyAliases \cup {None} :
        SupplyCall(plug, name, alias)
        => LET a == IF alias = None THEN name ELSE alias
           IN  /\ last'.res.kind = "return"
               /\ DOMAIN supplies'[plug] = DOMAIN supplies[plug] \cup {a}
               /\ supplies'[plug][a] = name
               /\ \A k \in DOMAIN supplies[plug] \ {a} :
                     supplies'[plug][k] = supplies[plug][k]
               /\ \A q \in Plugs \ {plug} : supplies'[q] = supplies[q]

\* C15: every step keeps C15_Step
C15_SupplySemantics == [][C15_Step]_vars

\* after supply calls a plug holds three aliases: one given by default, one
\* that differs from its name, and one under the name of the other attribute
C15_Witness ==
    \E p \in Plugs :
        /\ last.op = "supply"
        /\ DOMAIN supplies[p] = SupplyAliases
        /\ supplies[p]["hp"] = "hp"
        /\ supplies[p]["health"] = "hp"
        /\ supplies[p]["x"] = "hp"

\* C16: a supply by a plug that is attached changes neither the buckets nor the
\* compiled list and makes the plug a supplier of the alias at once; the read
\* or write that follows it, with no connect, disconnect or recompilation in
\* between, is routed by the new _supplies; and a plug attached with an empty
\* _supplies gives nothing to a read and takes nothing from a write.
C16_Step ==
    /\ \A plug \in Plugs, name \in Attributes, alias \in Names \cup {None} :
          (last'.op = "supply" /\ SupplyCall(plug, name, alias))
          => /\ UNCHANGED <<connections, compiled>>
             /\ \A s \in Sockets :
                   plug \in Attached(s)
                   => plug \in Suppliers(s, IF alias = None THEN name ELSE alias)'
    /\ \A s \in Sockets, name \in Names :
          (last.op = "supply" /\ last'.op = "getattr" /\ GetAttribute(s, name))
          => /\ Suppliers(s, name) # {} => last'.res.kind # "ValueError"
             /\ (Suppliers(s, name) # {} /\ AllSet(s, name))
                => last'.res = Returned(Supplied(Winner(s, name), name))
    /\ \A s \in Sockets, name \in Names, value \in Values :
          (last.op = "supply" /\ last'.op = "setattr" /\ SetAttribute(s, name, value))
          => \A p \in Suppliers(s, name) : attrs'[p][supplies[p][name]] = value
    /\ \A s \in Sockets, name \in Names, p \in Plugs :
          (last'.op = "getattr" /\ GetAttribute(s, name) /\ supplies[p] = <<>>)
          => last'.res = Getattr(Without(compiled[s], p), supplies, attrs, name)
    /\ \A s \in Sockets, name \in Names, value \in Values, p \in Plugs :
          (last'.op = "setattr" /\ SetAttribute(s, name, value) /\ supplies[p] = <<>>)
          => attrs'[p] = attrs[p]

\* C16: every step keeps C16_Step
C16_LateSupply == [][C16_Step]_vars

\* inside its connected() hook, bound and compiled, a plug has just supplied a
\* name that no other attached plug supplies
C16_Witness ==
    \E s \in Sockets, name \in Names :
        /\ last.op = "supply"
        /\ hook.op = "connected"
        /\ hook.socket = s
        /\ hook.plug \in Range(compiled[s])
        /\ Suppliers(s, name) = {hook.plug}
        /\ Attached(s) # {hook.plug}

----------------------------------------------------------------------------
(* Two threads on one socket: one runs connect or disconnect, statement by  *)
(* statement through _compile_connections, the other reads.  The code has   *)
(* no lock.  hook holds where the first thread stands.  The statements that *)
(* touch only plug.socket and _connections, which the reading thread never  *)
(* looks at, are taken together; a read takes _compiled_connections as it   *)
(* is at that moment.                                                       *)

\* the name read, and the value assigned, in the runs with two threads
ThreadNames == {"x"}
ThreadValues == {"v1"}

\* the thread stands at op in s.connect(plug) or s.disconnect(plug); before is
\* _compiled_connections when the call began, i the bucket the loop of
\* _compile_connections comes to next
At(op, s, plug, before, i) ==
    [op |-> op, socket |-> s, plug |-> plug, before |-> before, i |-> i]

\* no connect or disconnect is running
Idle == At("none", None, None, <<>>, 0)

InitThreads ==
    /\ connections = [s \in Sockets |-> <<>>]
    /\ compiled = [s \in Sockets |-> <<>>]
    /\ socket = [p \in Plugs |-> None]
    /\ supplies = [p \in Plugs |-> <<>>]
    /\ attrs = [p \in Plugs |-> <<>>]
    /\ hook = Idle
    /\ last = Call("init", None, None, Result("return"))

\* connect: plug.socket = self; self._connections[priority].append(plug)
ThreadConnect(s, plug, priority) ==
    /\ hook = Idle
    /\ Entries(connections[s], DOMAIN connections[s]) < MaxConn
    /\ socket' = Bind(socket, s, plug)
    /\ connections' = [connections EXCEPT ![s] = ConnectAppend(@, priority, plug)]
    /\ hook' = At("connect.reset", s, plug, compiled[s], 0)
    /\ last' = Call("connect", None, None, Result("running"))
    /\ UNCHANGED <<compiled, supplies, attrs>>

\* _compile_connections: super().__setattr__('_compiled_connections', [])
ThreadReset ==
    /\ hook.op \in {"connect.reset", "disconnect.reset"}
    /\ compiled' = [compiled EXCEPT ![hook.socket] = <<>>]
    /\ hook' = [hook EXCEPT !.op = IF @ = "connect.reset" THEN "connect.extend"
                                   ELSE "disconnect.extend",
                            !.i = 1]
    /\ last' = [last EXCEPT !.op = "compile"]
    /\ UNCHANGED <<connections, socket, supplies, attrs>>

\* _compile_connections: one turn of the loop, extend() with the next bucket
ThreadExtend ==
    LET keys == Sorted(DOMAIN connections[hook.socket])
    IN  /\ hook.op \in {"connect.extend", "disconnect.extend"}
        /\ hook.i <= Len(keys)
        /\ compiled' = [compiled EXCEPT ![hook.socket] =
                            @ \o connections[hook.socket][keys[hook.i]]]
        /\ hook' = [hook EXCEPT !.i = @ + 1]
        /\ last' = [last EXCEPT !.op = "compile"]
        /\ UNCHANGED <<connections, socket, supplies, attrs>>

\* connect: the loop is over, plug.connected() is called
ThreadCallConnected ==
    /\ hook.op = "connect.extend"
    /\ hook.i > Len(Sorted(DOMAIN connections[hook.socket]))
    /\ hook' = [hook EXCEPT !.op = "connected"]
    /\ last' = Call("connect", None, None, Result("hook"))
    /\ UNCHANGED <<connections, compiled, socket, supplies, attrs>>

\* plug.connected() returns, and connect with it
ThreadConnectReturn ==
    /\ hook.op = "connected"
    /\ hook' = Idle
    /\ last' = Call("connect", None, None, Result("return"))
    /\ UNCHANGED <<connections, compiled, socket, supplies, attrs>>

\* disconnect: plug.disconnected() is called
ThreadDisconnect(s, plug) ==
    /\ hook = Idle
    /\ hook' = At("disconnected", s, plug, compiled[s], 0)
    /\ last' = Call("disconnect", None, None, Result("hook"))
    /\ UNCHANGED <<connections, compiled, socket, supplies, attrs>>

\* disconnect: the hook has returned, the loops take the plug out of its buckets
ThreadDisconnectRemove ==
    /\ hook.op = "disconnected"
    /\ connections' = [connections EXCEPT ![hook.socket] = DisconnectRemove(@, hook.plug)]
    /\ hook' = [hook EXCEPT !.op = "disconnect.reset"]
    /\ last' = Call("disconnect", None, None, Result("running"))
    /\ UNCHANGED <<compiled, socket, supplies, attrs>>

\* disconnect: the loop of _compile_connections is over, disconnect returns
ThreadDisconnectReturn ==
    /\ hook.op = "disconnect.extend"
    /\ hook.i > Len(Sorted(DOMAIN connections[hook.socket]))
    /\ hook' = Idle
    /\ last' = Call("disconnect", None, None, Result("return"))
    /\ UNCHANGED <<connections, compiled, socket, supplies, attrs>>

NextThreads ==
    \/ \E s \in Sockets, plug \in Plugs, priority \in Priorities : ThreadConnect(s, plug, priority)
    \/ ThreadReset
    \/ ThreadExtend
    \/ ThreadCallConnected
    \/ ThreadConnectReturn
    \/ \E s \in Sockets, plug \in Plugs : ThreadDisconnect(s, plug)
    \/ ThreadDisconnectRemove
    \/ ThreadDisconnectReturn
    \/ \E s \in Sockets, name \in ThreadNames : GetAttribute(s, name)
    \/ \E plug \in Plugs, name \in Attributes : SupplyCall(plug, name, None)
    \/ \E plug \in Plugs, name \in Attributes, value \in ThreadValues : PlugAssign(plug, name, value)

SpecThreads == InitThreads /\ [][NextThreads]_vars

\* the buckets of s once the call the thread stands in has changed them
AfterMutation(s) ==
    IF hook.op \in {"disconnected", "disconnect.reset", "disconnect.extend"}
    THEN DisconnectRemove(connections[s], hook.plug)
    ELSE connections[s]

\* C17: a read by one thread while another runs connect or disconnect on the
\* socket finds _compiled_connections to be the flattening of the buckets
\* before the call or the flattening after its change, never an empty or
\* half-built list in between.
C17_AtomicRecompile ==
    \A s \in Sockets, name \in ThreadNames :
        (ReadOf(s, name) /\ hook.socket = s)
        => \/ compiled[s] = hook.before
           \/ compiled[s] = Flattened(AfterMutation(s), DOMAIN AfterMutation(s))

\* C18: for a plug that is in no bucket of s, s.connect(plug, priority) followed
\* by s.disconnect(plug) gives back the compiled list as it was: the connect
\* adds entries of the plug only, the hooks and the calls in between leave the
\* list alone, and the disconnect takes out the entries of the plug and keeps
\* the others in their order, so that every name is read as if the plug had
\* never been attached.
C18_Step ==
    /\ \A s \in Sockets, plug \in Plugs, priority \in Priorities :
          (hook = NoHook /\ plug \notin Attached(s))
          => CompileConnections(
                 DisconnectRemove(ConnectAppend(connections[s], priority, plug), plug))
             = compiled[s]
    /\ \A s \in Sockets, plug \in Plugs, priority \in Priorities :
          (last'.op = "connect" /\ Connect(s, plug, priority) /\ plug \notin Attached(s))
          => Without(compiled'[s], plug) = compiled[s]
    /\ (last'.op = "connect" /\ ConnectReturn) => compiled' = compiled
    /\ \A s \in Sockets, plug \in Plugs :
          (last'.op = "disconnect" /\ Disconnect(s, plug)) => compiled' = compiled
    /\ \A s \in Sockets, plug \in Plugs :
          (/\ last'.op = "disconnect"
           /\ hook = [op |-> "disconnected", socket |-> s, plug |-> plug]
           /\ DisconnectReturn)
          => /\ compiled'[s] = Without(compiled[s], plug)
             /\ \A name \in Names :
                   Getattr(compiled'[s], supplies', attrs', name)
                   = Getattr(Without(compiled[s], plug), supplies, attrs, name)

C19_Step ==
    /\ \A s \in Sockets, name \in PrivateNames :
          (last'.op = "getattr" /\ ReadAttribute(s, name))
          => UNCHANGED <<connections, compiled, attrs, supplies, socket>>
    /\ \A s \in Sockets, name \in PrivateNames, value \in PrivateValues :
          (last'.op = "setattr" /\ SetAttribute(s, name, value))
          => UNCHANGED <<connections, compiled, supplies>>
    /\ \A plug \in Plugs, name \in Attributes, alias \in PrivateNames \cup {None} :
          (last'.op = "supply" /\ SupplyCall(plug, name, alias))
          => UNCHANGED <<connections, compiled>>
    /\ (connections' # connections \/ compiled' # compiled)
          => last'.op \in {"connect", "disconnect"}

\* C19: every step keeps C19_Step
C19_MembershipFrame == [][C19_Step]_vars

\* a write of the name _compiled_connections has gone to the attached plug that
\* supplies it, and the compiled list of the socket still holds the plug
C19_Witness ==
    \E s \in Sockets, p \in Plugs :
        /\ WriteOf(s, "_compiled_connections")
        /\ last.res.kind = "return"
        /\ p \in Range(compiled[s])
        /\ "_compiled_connections" \in DOMAIN supplies[p]
        /\ supplies[p]["_compiled_connections"] \in DOMAIN attrs[p]

----------------------------------------------------------------------------
(* Two sockets: a plug may be connected to both *)

Hubs == {"s1", "s2"}

\* the priority, the name and the value of the runs with two sockets
HubPriorities == {0}
HubNames == {"x"}
HubValues == {"v1"}

InitHubs ==
    /\ connections = [s \in Hubs |-> <<>>]
    /\ compiled = [s \in Hubs |-> <<>>]
    /\ socket = [p \in Plugs |-> None]
    /\ supplies = [p \in Plugs |-> <<>>]
    /\ attrs = [p \in Plugs |-> <<>>]
    /\ hook = NoHook
    /\ last = Call("init", None, None, Result("return"))

NextHubs ==
    \/ \E s \in Hubs, plug \in Plugs, priority \in HubPriorities : Connect(s, plug, priority)
    \/ ConnectReturn
    \/ \E s \in Hubs, plug \in Plugs : Disconnect(s, plug)
    \/ DisconnectReturn
    \/ \E s \in Hubs, name \in HubNames : GetAttribute(s, name)
    \/ \E s \in Hubs, name \in HubNames, value \in HubValues : SetAttribute(s, name, value)
    \/ \E plug \in Plugs, name \in Attributes : SupplyCall(plug, name, None)
    \/ \E plug \in Plugs, name \in Attributes, value \in HubValues : PlugAssign(plug, name, value)

SpecHubs == InitHubs /\ [][NextHubs]_vars

\* C20: t.connect(plug) while plug is still in a bucket of another socket s
\* binds plug.socket to t and changes nothing of s: the buckets and the
\* compiled list of s still hold the plug, and s still routes its reads and
\* writes to it.  From then on a plug stands in the compiled list of a socket
\* that is not its plug.socket, so "every plug in a socket's compiled list is
\* bound to that socket" can hold only while no plug is in two sockets.
C20_Step ==
    /\ \A s \in Hubs, t \in Hubs, plug \in Plugs, priority \in HubPriorities :
          (/\ last'.op = "connect"
           /\ s # t
           /\ plug \in Attached(s)
           /\ Connect(t, plug, priority))
          => /\ socket'[plug] = t
             /\ connections'[s] = connections[s]
             /\ compiled'[s] = compiled[s]
             /\ plug \in Range(compiled'[s])
             /\ socket'[plug] # s
    /\ \A s \in Hubs, name \in HubNames, plug \in Plugs :
          (/\ last'.op = "getattr"
           /\ GetAttribute(s, name)
           /\ socket[plug] # s
           /\ Suppliers(s, name) = {plug}
           /\ AllSet(s, name))
          => last'.res = Returned(Supplied(plug, name))
    /\ \A s \in Hubs, name \in HubNames, value \in HubValues, plug \in Plugs :
          (/\ last'.op = "setattr"
           /\ SetAttribute(s, name, value)
           /\ socket[plug] # s
           /\ plug \in Suppliers(s, name))
          => /\ last'.res.kind = "return"
             /\ attrs'[plug][supplies[plug][name]] = value
    /\ \A plug \in Plugs :
          (\A s \in Hubs : plug \in Range(compiled[s]))
          => \E s \in Hubs : plug \in Range(compiled[s]) /\ socket[plug] # s

\* C20: every step keeps C20_Step
C20_CrossHubAttach == [][C20_Step]_vars

\* a plug bound to one socket is still compiled in the other, supplies a name
\* there, and the last read of that name on the other socket returned its value
C20_Witness ==
    \E s \in Hubs, t \in Hubs, plug \in Plugs, name \in HubNames :
        /\ s # t
        /\ socket[plug] = t
        /\ plug \in Range(compiled[t])
        /\ plug \in Range(compiled[s])
        /\ Suppliers(s, name) = {plug}
        /\ AllSet(s, name)
        /\ ReadOf(s, name)
        /\ last.res = Returned(Supplied(plug, name))

====
